---------------------------- MODULE Spec2Model ----------------------------
(***************************************************************************)
(* Message race of the messages relay: the delivery strategy               *)
(* (message_race_strategy.rs, BasicStrategy) and the race loop             *)
(* (message_race_loop.rs, run).                                            *)
(*                                                                         *)
(* Spec      drives BasicStrategy directly, the way its unit tests do: any *)
(*           sequence of strategy calls, nothing in flight.                *)
(* RaceSpec  does the same with any RaceState.                             *)
(* LoopSpec  is run(): one action per arm of the select!, each followed by *)
(*           the rest of the loop body; the clients answer anything.       *)
(* LiveSpec  is run() with requests that succeed and chains that advance,  *)
(*           under fairness.                                               *)
(* SelectorSpec is Spec with selectors that may break their contract.     *)
(* RunSpec   is run() with time passing and feeds that may end.            *)
(* RetrySpec is run() with feeds that keep yielding and requests that are  *)
(*           answered, under fairness.                                     *)
(*                                                                         *)
(* A header id is modelled by its number (the only part the strategy       *)
(* compares), a nonces range by its begin and end, a proof is left out.    *)
(* Option<T> is a sequence of length at most one.                          *)
(***************************************************************************)
EXTENDS Integers, Sequences, FiniteSets, TLC

\* Largest message nonce of the model.
MaxNonce == 3
\* Largest source header number of the model.
MaxHeader == 1

None == << >>
Some(x) == << x >>
IsSome(o) == o # << >>
Unwrap(o) == o[1]

Max(a, b) == IF a >= b THEN a ELSE b

Nonces == 0..MaxNonce
Headers == 0..MaxHeader

\* RangeInclusive<MessageNonce> with begin <= end.
Range(b, e) == [begin |-> b, end |-> e]
Ranges == { Range(b, e) : b \in Nonces, e \in Nonces }
WellFormedRanges == { r \in Ranges : r.begin <= r.end }

\* (HeaderId, SourceNoncesRange): one entry of source_queue.
Entry(at, r) == [at |-> at, begin |-> r.begin, end |-> r.end]
RangeOf(e) == Range(e.begin, e.end)

VARIABLES
    \* BasicStrategy
    source_queue,       \* VecDeque<(HeaderId, SourceNoncesRange)>
    target_nonce,       \* best nonce known to target node
    \* RaceState
    source_state,       \* Option<ClientState>: Some([best_self, best_peer])
    target_state,       \* Option<ClientState>: Some([best_self, best_peer])
    nonces_to_submit,   \* Option<(SourceHeaderId, RangeInclusive, Proof)>
    nonces_submitted,   \* Option<RangeInclusive>
    \* the last call made on the strategy by Spec and RaceSpec: its arguments
    \* and its result
    last,
    \* run(): the locals of the loop
    source_client_is_online,
    source_nonces_required,
    source_nonces,              \* Fuse of race_source.nonces(..): Some(request) while pending
    source_generate_proof,      \* Fuse of race_source.generate_proof(..)
    source_go_offline_future,   \* Fuse of the sleep set by process_future_result
    target_client_is_online,
    target_nonces_required,
    target_nonces,              \* Fuse of race_target.nonces(..)
    target_submit_proof,        \* Fuse of race_target.submit_proof(..)
    target_go_offline_future,
    race_source_updated,        \* the feeds: "open" or "terminated"
    race_target_updated,
    elapsed,                    \* stall_countdown.elapsed(), in ticks
    exit,                       \* "running", or how run() ended
    \* the arm and the outcome of the request that ended with an error in the
    \* last iteration, if one did
    event,
    \* the last two ranges the loop has recorded in nonces_submitted
    recorded,
    \* the latest nonce generated at the source as of its last answer
    reported

strategy_vars == << source_queue, target_nonce >>
race_vars == << source_state, target_state, nonces_to_submit, nonces_submitted >>
loop_vars == << source_client_is_online, source_nonces_required, source_nonces,
                source_generate_proof, source_go_offline_future,
                target_client_is_online, target_nonces_required, target_nonces,
                target_submit_proof, target_go_offline_future,
                race_source_updated, race_target_updated, elapsed, exit,
                event, recorded, reported >>
vars == << source_queue, target_nonce, source_state, target_state,
           nonces_to_submit, nonces_submitted, last, loop_vars >>

-----------------------------------------------------------------------------
(* NoncesRange *)

\* NoncesRange::greater_than: the nonces of the range that are greater than
\* `nonce`, None if there are none.
greater_than(r, nonce) ==
    IF r.end > nonce
    THEN Some(Range(Max(r.begin, nonce + 1), r.end))
    ELSE None

-----------------------------------------------------------------------------
(* BasicStrategy *)

is_empty(queue) == queue = << >>

best_at_source(queue, tn) ==
    Max(IF queue # << >> THEN queue[Len(queue)].end ELSE tn, tn)

best_at_target(tn) == tn

\* source_nonces_updated that queues the reported range as it is.
source_nonces_updated_untrimmed(queue, tn, at_block, new_nonces) ==
    Append(queue, Entry(at_block, new_nonces))

\* source_nonces_updated that trims the report by the target nonce only.
source_nonces_updated_by_target(queue, tn, at_block, new_nonces) ==
    LET trimmed == greater_than(new_nonces, tn)
    IN  IF IsSome(trimmed)
        THEN Append(queue, Entry(at_block, Unwrap(trimmed)))
        ELSE queue

\* source_nonces_updated: the queue after the call.
source_nonces_updated(queue, tn, at_block, new_nonces) ==
    LET prev_best_at_source == best_at_source(queue, tn)
        trimmed == greater_than(new_nonces, prev_best_at_source)
    IN  IF IsSome(trimmed)
        THEN Append(queue, Entry(at_block, Unwrap(trimmed)))
        ELSE queue

\* drain_queue that stops at an entry that begins at `nonce`.
RECURSIVE drain_queue_strict(_, _)
drain_queue_strict(queue, nonce) ==
    IF queue # << >> /\ Head(queue).begin < nonce
    THEN LET subrange == greater_than(RangeOf(Head(queue)), nonce)
         IN  IF IsSome(subrange)
             THEN << Entry(Head(queue).at, Unwrap(subrange)) >> \o Tail(queue)
             ELSE drain_queue_strict(Tail(queue), nonce)
    ELSE queue

\* The loop of target_nonces_updated as an if: one entry is looked at.
drain_queue_once(queue, nonce) ==
    IF queue # << >> /\ Head(queue).begin <= nonce
    THEN LET subrange == greater_than(RangeOf(Head(queue)), nonce)
         IN  IF IsSome(subrange)
             THEN << Entry(Head(queue).at, Unwrap(subrange)) >> \o Tail(queue)
             ELSE Tail(queue)
    ELSE queue

\* The while loop of target_nonces_updated: the queue after it.
RECURSIVE drain_queue(_, _)
drain_queue(queue, nonce) ==
    IF queue # << >> /\ Head(queue).begin <= nonce
    THEN LET subrange == greater_than(RangeOf(Head(queue)), nonce)
         IN  IF IsSome(subrange)
             THEN << Entry(Head(queue).at, Unwrap(subrange)) >> \o Tail(queue)
             ELSE drain_queue(Tail(queue), nonce)
    ELSE queue

\* need_to_select_new_nonces that gives up the held proof on any report.
need_to_select_new_nonces_always(to_submit, nonce) == IsSome(to_submit)

need_to_select_new_nonces(to_submit, nonce) ==
    IF IsSome(to_submit) THEN Unwrap(to_submit).end <= nonce ELSE FALSE

\* need_new_nonces_to_submit that keeps a submitted range ending at the reported
\* nonce.
need_new_nonces_to_submit_strict(submitted, nonce) ==
    IF IsSome(submitted) THEN Unwrap(submitted).end < nonce ELSE FALSE

\* need_new_nonces_to_submit that keeps the submitted range whatever the target
\* reports.
need_new_nonces_to_submit_never(submitted, nonce) == FALSE

need_new_nonces_to_submit(submitted, nonce) ==
    IF IsSome(submitted) THEN Unwrap(submitted).end <= nonce ELSE FALSE

\* target_nonces_updated that, on a nonce below target_nonce, keeps the
\* strategy as it is but still clears the fields of the RaceState.
target_nonces_updated_stale_clears(queue, tn, to_submit, submitted, nonce) ==
    [queue |-> IF nonce < tn THEN queue ELSE drain_queue(queue, nonce),
     target_nonce |-> IF nonce < tn THEN tn ELSE nonce,
     nonces_to_submit |->
         IF need_to_select_new_nonces(to_submit, nonce) THEN None ELSE to_submit,
     nonces_submitted |->
         IF need_new_nonces_to_submit(submitted, nonce) THEN None ELSE submitted]

\* target_nonces_updated without the return on a nonce below target_nonce.
target_nonces_updated_no_return(queue, tn, to_submit, submitted, nonce) ==
    [queue |-> drain_queue(queue, nonce),
     target_nonce |-> nonce,
     nonces_to_submit |->
         IF need_to_select_new_nonces(to_submit, nonce) THEN None ELSE to_submit,
     nonces_submitted |->
         IF need_new_nonces_to_submit(submitted, nonce) THEN None ELSE submitted]

\* target_nonces_updated: the strategy and the two RaceState fields after the
\* call.
target_nonces_updated(queue, tn, to_submit, submitted, nonce) ==
    IF nonce < tn
    THEN [queue |-> queue, target_nonce |-> tn,
          nonces_to_submit |-> to_submit, nonces_submitted |-> submitted]
    ELSE [queue |-> drain_queue(queue, nonce),
          target_nonce |-> nonce,
          nonces_to_submit |->
              IF need_to_select_new_nonces(to_submit, nonce) THEN None ELSE to_submit,
          nonces_submitted |->
              IF need_new_nonces_to_submit(submitted, nonce) THEN None ELSE submitted]

\* The selectors the model passes to select_nonces_to_deliver_with_selector.
\*   take_all   |_| None, the selector of select_nonces_to_deliver
\*   hold_from  holds back the nonces >= k of the range it is given
\*   fixed      always answers Some(r), whatever the range it is given
TakeAll == [kind |-> "take_all", k |-> 0, r |-> Range(0, 0)]
HoldFrom(k) == [kind |-> "hold_from", k |-> k, r |-> Range(0, 0)]
Fixed(r) == [kind |-> "fixed", k |-> 0, r |-> r]

Selector(sel, r) ==
    CASE sel.kind = "take_all" -> None
      [] sel.kind = "hold_from" ->
            IF sel.k <= r.end THEN Some(Range(Max(sel.k, r.begin), r.end)) ELSE None
      [] sel.kind = "fixed" -> Some(sel.r)

\* The assert! without its last condition: the returned range may end anywhere.
selector_contract_any_end(requeue, queued) ==
    /\ requeue.begin <= requeue.end
    /\ requeue.begin >= queued.begin

\* The assert! of select_nonces_to_deliver_with_selector.
selector_contract(requeue, queued) ==
    /\ requeue.begin <= requeue.end
    /\ requeue.begin >= queued.begin
    /\ requeue.end = queued.end

\* is_finalized that asks for a header strictly below the best one.
is_finalized_strict(queued_at, best_header_at_target) ==
    ~(queued_at >= best_header_at_target)

\* Whether the header that has queued the range is finalized at the target.
is_finalized(queued_at, best_header_at_target) ==
    ~(queued_at > best_header_at_target)

\* nonces_end_on_requeue without the test that r begins inside the queued
\* range.
nonces_end_on_requeue_always(r, queued, nonces_end) == Some(r.begin - 1)

\* nonces_end_on_requeue that delivers the first requeued nonce as well.
nonces_end_on_requeue_inclusive(r, queued, nonces_end) ==
    IF r.begin # queued.begin THEN Some(r.begin) ELSE nonces_end

\* nonces_end once the range r of the queued range is requeued: the nonces in
\* front of r are delivered, if there are any.
nonces_end_on_requeue(r, queued, nonces_end) ==
    IF r.begin # queued.begin THEN Some(r.begin - 1) ELSE nonces_end

\* The while loop without the push_front of the range to requeue.
RECURSIVE select_loop_no_requeue(_, _, _, _)
select_loop_no_requeue(queue, best_header_at_target, sel, nonces_end) ==
    IF queue = << >>
    THEN [queue |-> queue, nonces_end |-> nonces_end, panic |-> FALSE]
    ELSE LET queued == Head(queue)
             range_to_requeue ==
                 IF ~is_finalized(queued.at, best_header_at_target)
                 THEN Some(RangeOf(queued))
                 ELSE Selector(sel, RangeOf(queued))
         IN  IF IsSome(range_to_requeue)
             THEN LET r == Unwrap(range_to_requeue)
                  IN  [queue |-> Tail(queue),
                       nonces_end |-> nonces_end_on_requeue(r, queued, nonces_end),
                       panic |-> ~selector_contract(r, queued)]
             ELSE select_loop_no_requeue(Tail(queue), best_header_at_target, sel,
                                         Some(queued.end))

\* The while loop of select_nonces_to_deliver_with_selector: the queue after
\* it, nonces_end, and whether the assert! failed.
RECURSIVE select_loop(_, _, _, _)
select_loop(queue, best_header_at_target, sel, nonces_end) ==
    IF queue = << >>
    THEN [queue |-> queue, nonces_end |-> nonces_end, panic |-> FALSE]
    ELSE LET queued == Head(queue)
             range_to_requeue ==
                 IF ~is_finalized(queued.at, best_header_at_target)
                 THEN Some(RangeOf(queued))
                 ELSE Selector(sel, RangeOf(queued))
         IN  IF IsSome(range_to_requeue)
             THEN LET r == Unwrap(range_to_requeue)
                  IN  IF ~selector_contract(r, queued)
                      THEN [queue |-> Tail(queue), nonces_end |-> nonces_end,
                            panic |-> TRUE]
                      ELSE [queue |-> << Entry(queued.at, r) >> \o Tail(queue),
                            nonces_end |-> nonces_end_on_requeue(r, queued, nonces_end),
                            panic |-> FALSE]
             ELSE select_loop(Tail(queue), best_header_at_target, sel,
                              Some(queued.end))

\* selected_range that begins at the first queued nonce.
selected_range_from_queue(queue, tn, nonces_end) ==
    Range(IF queue # << >> THEN Head(queue).begin ELSE tn + 1, nonces_end)

\* The range returned for a nonces_end: RangeInclusive::new(target_nonce + 1,
\* nonces_end). `queue` is the queue the call was made with.
selected_range(queue, tn, nonces_end) == Range(tn + 1, nonces_end)

\* "if we have already selected nonces that we want to submit, do nothing"
already_selected(to_submit) == IsSome(to_submit)

\* already_submitted that never sees submitted nonces.
already_submitted_ignored(submitted) == FALSE

\* "if we already submitted some nonces, do nothing"
already_submitted(submitted) == IsSome(submitted)

\* select_nonces_to_deliver_with_selector: the queue after the call, the
\* range it returns and whether it panicked.
select_nonces_to_deliver_with_selector(queue, tn, t_state, to_submit, submitted, sel) ==
    IF already_selected(to_submit)
    THEN [queue |-> queue, result |-> None, panic |-> FALSE]
    ELSE IF already_submitted(submitted)
    THEN [queue |-> queue, result |-> None, panic |-> FALSE]
    ELSE IF ~IsSome(t_state)
    THEN [queue |-> queue, result |-> None, panic |-> FALSE]
    ELSE LET out == select_loop(queue, Unwrap(t_state).best_peer, sel, None)
         IN  [queue |-> out.queue,
              result |-> IF IsSome(out.nonces_end) /\ ~out.panic
                         THEN Some(selected_range(queue, tn, Unwrap(out.nonces_end)))
                         ELSE None,
              panic |-> out.panic]

select_nonces_to_deliver(queue, tn, t_state, to_submit, submitted) ==
    select_nonces_to_deliver_with_selector(queue, tn, t_state, to_submit, submitted,
                                           TakeAll)

-----------------------------------------------------------------------------
(* run(): the state before the first iteration *)

NoEvent == [arm |-> "none", outcome |-> "none"]

\* The locals of run() before the loop: both clients online, nothing required,
\* every request future terminated, both feeds open.
LoopInit ==
    /\ source_client_is_online = TRUE
    /\ source_nonces_required = FALSE
    /\ source_nonces = None
    /\ source_generate_proof = None
    /\ source_go_offline_future = FALSE
    /\ target_client_is_online = TRUE
    /\ target_nonces_required = FALSE
    /\ target_nonces = None
    /\ target_submit_proof = None
    /\ target_go_offline_future = FALSE
    /\ race_source_updated = "open"
    /\ race_target_updated = "open"
    /\ elapsed = 0
    /\ exit = "running"
    /\ event = NoEvent
    /\ recorded = << >>
    /\ reported = 0

-----------------------------------------------------------------------------
(* Spec: the strategy driven call by call *)

\* The selectors of Spec: they keep the contract of the selector.
Selectors == { HoldFrom(k) : k \in 1..MaxNonce }

\* What a test may put in the RaceState it hands to the strategy. The strategy
\* reads the best_peer of target_state and the end of the two ranges.
TargetStates == { None } \cup { Some([best_self |-> 0, best_peer |-> h]) : h \in Headers }
ToSubmitValues == { None } \cup { Some(Entry(0, Range(1, e))) : e \in 1..MaxNonce }
SubmittedValues == { None } \cup { Some(Range(1, e)) : e \in 1..MaxNonce }

\* Whether every nonce of the range is a nonce of some queued entry.
Covered(queue, r) ==
    \A x \in r.begin..r.end :
        \E i \in 1..Len(queue) : queue[i].begin <= x /\ x <= queue[i].end

\* The record of a call: the operation, its nonce argument (target_nonces_updated),
\* its selector, whether the reported range was covered by the queue
\* (source_nonces_updated), the result (the selections) and the entry that was
\* at the front of the queue when the call was made.
NoCall ==
    [op |-> "new", nonce |-> 0, sel |-> TakeAll, covered |-> FALSE,
     result |-> None, pre_front |-> None,
     pre_to_submit |-> None, pre_submitted |-> None, again |-> FALSE]

Call(op, nonce, sel, covered, result) ==
    [op |-> op, nonce |-> nonce, sel |-> sel, covered |-> covered, result |-> result,
     pre_front |-> IF source_queue = << >> THEN None ELSE Some(Head(source_queue)),
     pre_to_submit |-> nonces_to_submit,
     pre_submitted |-> nonces_submitted,
     again |-> op = "target_nonces_updated" /\ last.op = op /\ last.nonce = nonce]

\* BasicStrategy::new() and RaceState::default()
Init ==
    /\ source_queue = << >>
    /\ target_nonce = 0
    /\ source_state = None
    /\ target_state = None
    /\ nonces_to_submit = None
    /\ nonces_submitted = None
    /\ last = NoCall
    /\ LoopInit

\* A test assigns a field of the RaceState.
SetTargetState ==
    /\ \E ts \in TargetStates \ { target_state } : target_state' = ts
    /\ last' = [NoCall EXCEPT !.op = "race_state"]
    /\ UNCHANGED << strategy_vars, source_state, nonces_to_submit, nonces_submitted,
                    loop_vars >>

SetNoncesToSubmit ==
    /\ \E v \in ToSubmitValues \ { nonces_to_submit } : nonces_to_submit' = v
    /\ last' = [NoCall EXCEPT !.op = "race_state"]
    /\ UNCHANGED << strategy_vars, source_state, target_state, nonces_submitted,
                    loop_vars >>

SetNoncesSubmitted ==
    /\ \E v \in SubmittedValues \ { nonces_submitted } : nonces_submitted' = v
    /\ last' = [NoCall EXCEPT !.op = "race_state"]
    /\ UNCHANGED << strategy_vars, source_state, target_state, nonces_to_submit,
                    loop_vars >>

CallSourceNoncesUpdated ==
    /\ \E at \in Headers, r \in WellFormedRanges :
          /\ source_queue' = source_nonces_updated(source_queue, target_nonce, at, r)
          /\ last' = Call("source_nonces_updated", 0, TakeAll,
                          Covered(source_queue, r), None)
    /\ UNCHANGED << target_nonce, race_vars, loop_vars >>

CallTargetNoncesUpdated ==
    /\ \E n \in Nonces :
          LET out == target_nonces_updated(source_queue, target_nonce,
                                           nonces_to_submit, nonces_submitted, n)
          IN  /\ source_queue' = out.queue
              /\ target_nonce' = out.target_nonce
              /\ nonces_to_submit' = out.nonces_to_submit
              /\ nonces_submitted' = out.nonces_submitted
              /\ last' = Call("target_nonces_updated", n, TakeAll, FALSE, None)
    /\ UNCHANGED << source_state, target_state, loop_vars >>

CallSelectNoncesToDeliver ==
    /\ LET out == select_nonces_to_deliver(source_queue, target_nonce, target_state,
                                           nonces_to_submit, nonces_submitted)
       IN  /\ source_queue' = out.queue
           /\ last' = Call("select_nonces_to_deliver", 0, TakeAll, FALSE, out.result)
    /\ UNCHANGED << target_nonce, race_vars, loop_vars >>

CallSelectWithSelector ==
    /\ \E sel \in Selectors :
          LET out == select_nonces_to_deliver_with_selector(
                         source_queue, target_nonce, target_state,
                         nonces_to_submit, nonces_submitted, sel)
          IN  /\ source_queue' = out.queue
              /\ last' = Call("select_nonces_to_deliver_with_selector", 0, sel,
                              FALSE, out.result)
    /\ UNCHANGED << target_nonce, race_vars, loop_vars >>

\* source_nonces_updated with nonces observed at the first header: a header
\* that every target_state knows.
CallSourceNoncesUpdatedAtFirstHeader ==
    /\ \E r \in WellFormedRanges :
          /\ source_queue' = source_nonces_updated(source_queue, target_nonce, 0, r)
          /\ last' = Call("source_nonces_updated", 0, TakeAll,
                          Covered(source_queue, r), None)
    /\ UNCHANGED << target_nonce, race_vars, loop_vars >>

\* Spec: the calls on the strategy, with a RaceState that holds nothing in
\* flight (the queue, the headers and the selectors vary).
Next ==
    \/ SetTargetState
    \/ CallSourceNoncesUpdated
    \/ CallTargetNoncesUpdated
    \/ CallSelectNoncesToDeliver
    \/ CallSelectWithSelector

Spec == Init /\ [][Next]_vars

\* RaceSpec: the calls on the strategy with any RaceState (nonces_to_submit
\* and nonces_submitted vary; the queued nonces are all observed at the first
\* header).
RaceNext ==
    \/ SetTargetState
    \/ SetNoncesToSubmit
    \/ SetNoncesSubmitted
    \/ CallSourceNoncesUpdatedAtFirstHeader
    \/ CallTargetNoncesUpdated
    \/ CallSelectNoncesToDeliver
    \/ CallSelectWithSelector

RaceSpec == Init /\ [][RaceNext]_vars

\* The selectors of SelectorSpec: those of Spec and the ones that answer a
\* fixed range, well formed or not, whatever the queued range.
AnySelectors == Selectors \cup { Fixed(r) : r \in Ranges }

\* select_nonces_to_deliver_with_selector with any selector: a failed assert!
\* aborts the caller.
CallSelectWithAnySelector ==
    /\ \E sel \in AnySelectors :
          LET out == select_nonces_to_deliver_with_selector(
                         source_queue, target_nonce, target_state,
                         nonces_to_submit, nonces_submitted, sel)
          IN  /\ source_queue' = out.queue
              /\ exit' = IF out.panic THEN "panic" ELSE exit
              /\ last' = Call("select_nonces_to_deliver_with_selector", 0, sel,
                              FALSE, out.result)
    /\ UNCHANGED << target_nonce, race_vars, source_client_is_online,
                    source_nonces_required, source_nonces, source_generate_proof,
                    source_go_offline_future, target_client_is_online,
                    target_nonces_required, target_nonces, target_submit_proof,
                    target_go_offline_future, race_source_updated,
                    race_target_updated, elapsed, event, recorded, reported >>

\* SelectorSpec: the calls of Spec with selectors that may break the contract
\* of the selector; nothing is called after a panic.
SelectorNext ==
    /\ exit = "running"
    /\ \/ SetTargetState
       \/ CallSourceNoncesUpdated
       \/ CallTargetNoncesUpdated
       \/ CallSelectWithAnySelector

SelectorSpec == Init /\ [][SelectorNext]_vars

-----------------------------------------------------------------------------
(* run(): the loop *)

\* The stall_timeout passed to run(), in ticks.
StallTimeout == 1
\* Largest nonce the clients of the loop report.
LoopMaxNonce == 3

LoopNonces == 0..LoopMaxNonce
\* The ranges of new nonces the source client reports to the loop.
LoopRanges == { r \in WellFormedRanges : r.begin >= 1 /\ r.end <= LoopMaxNonce }
Min(a, b) == IF a <= b THEN a ELSE b

\* The snapshots the two feeds deliver. The loop reads the best_self of the
\* source (the block of a nonces request) and the best_peer of the target (the
\* source header the target knows); the other two fields stay at 0.
SourceClientStates == { [best_self |-> h, best_peer |-> 0] : h \in Headers }
TargetClientStates == { [best_self |-> 0, best_peer |-> h] : h \in Headers }

\* How a request ends: Ok, an error that is a connection error, another error.
Outcomes == { "ok", "connection", "other" }

\* The last two elements of a sequence.
LastTwo(seq) == IF Len(seq) > 2 THEN Tail(seq) ELSE seq

\* The locals of run() and the state they refer to, as one record.
Cur ==
    [queue |-> source_queue, tn |-> target_nonce,
     ss |-> source_state, ts |-> target_state,
     tos |-> nonces_to_submit, sub |-> nonces_submitted,
     s_online |-> source_client_is_online, s_req |-> source_nonces_required,
     s_nonces |-> source_nonces, s_proof |-> source_generate_proof,
     s_sleep |-> source_go_offline_future,
     t_online |-> target_client_is_online, t_req |-> target_nonces_required,
     t_nonces |-> target_nonces, t_submit |-> target_submit_proof,
     t_sleep |-> target_go_offline_future,
     src_feed |-> race_source_updated, tgt_feed |-> race_target_updated,
     el |-> elapsed]

\* The locals of run() before the loop and RaceState::default().
Fresh ==
    [queue |-> << >>, tn |-> 0, ss |-> None, ts |-> None, tos |-> None, sub |-> None,
     s_online |-> TRUE, s_req |-> FALSE, s_nonces |-> None, s_proof |-> None,
     s_sleep |-> FALSE,
     t_online |-> TRUE, t_req |-> FALSE, t_nonces |-> None, t_submit |-> None,
     t_sleep |-> FALSE,
     src_feed |-> "open", tgt_feed |-> "open", el |-> 0]

Store(m, ex, ev) ==
    /\ source_queue' = m.queue
    /\ target_nonce' = m.tn
    /\ source_state' = m.ss
    /\ target_state' = m.ts
    /\ nonces_to_submit' = m.tos
    /\ nonces_submitted' = m.sub
    /\ source_client_is_online' = m.s_online
    /\ source_nonces_required' = m.s_req
    /\ source_nonces' = m.s_nonces
    /\ source_generate_proof' = m.s_proof
    /\ source_go_offline_future' = m.s_sleep
    /\ target_client_is_online' = m.t_online
    /\ target_nonces_required' = m.t_req
    /\ target_nonces' = m.t_nonces
    /\ target_submit_proof' = m.t_submit
    /\ target_go_offline_future' = m.t_sleep
    /\ race_source_updated' = m.src_feed
    /\ race_target_updated' = m.tgt_feed
    /\ elapsed' = m.el
    /\ exit' = ex
    /\ event' = ev
    /\ UNCHANGED last

\* run() returns (or panics): its locals, the strategy and the RaceState are
\* dropped.
Return(ex, ev) == Store(Fresh, ex, ev)

\* process_future_result(..).fail_if_connection_error(..): whether the client is
\* online after the request, whether its go-offline sleep is set, and whether
\* run() returns.
process_future_result(outcome) ==
    CASE outcome = "ok" -> [online |-> TRUE, sleeps |-> FALSE, fails |-> FALSE]
      [] outcome = "connection" -> [online |-> FALSE, sleeps |-> TRUE, fails |-> FALSE]
      [] outcome = "other" -> [online |-> FALSE, sleeps |-> TRUE, fails |-> TRUE]

\* failed_client that blames the target for a failed proof generation.
failed_client_swapped(arm) ==
    CASE arm = "source_nonces" -> "SourceFailed"
      [] arm = "target_nonces" -> "TargetFailed"
      [] arm = "source_generate_proof" -> "TargetFailed"
      [] arm = "target_submit_proof" -> "TargetFailed"

\* The FailedClient each arm hands to fail_if_connection_error.
failed_client(arm) ==
    CASE arm = "source_nonces" -> "SourceFailed"
      [] arm = "target_nonces" -> "TargetFailed"
      [] arm = "source_generate_proof" -> "SourceFailed"
      [] arm = "target_submit_proof" -> "TargetFailed"

\* select_nonces_to_deliver that proves at the best header of the source.
loop_select_nonces_to_deliver_at_best_self(m) ==
    IF IsSome(m.ts)
    THEN LET out == select_nonces_to_deliver(m.queue, m.tn, m.ts, m.tos, m.sub)
         IN  [queue |-> out.queue,
              result |-> IF IsSome(out.result)
                         THEN Some(Entry(IF IsSome(m.ss) THEN Unwrap(m.ss).best_self
                                         ELSE 0,
                                         Unwrap(out.result)))
                         ELSE None]
    ELSE [queue |-> m.queue, result |-> None]

\* fn select_nonces_to_deliver(race_state, strategy): the queue after the call
\* and Some((target_state.best_peer, nonces_range)) or None.
loop_select_nonces_to_deliver(m) ==
    IF IsSome(m.ts)
    THEN LET out == select_nonces_to_deliver(m.queue, m.tn, m.ts, m.tos, m.sub)
         IN  [queue |-> out.queue,
              result |-> IF IsSome(out.result)
                         THEN Some(Entry(Unwrap(m.ts).best_peer, Unwrap(out.result)))
                         ELSE None]
    ELSE [queue |-> m.queue, result |-> None]

\* The stall check: the timer is restarted when nothing is pending or in flight
\* and the strategy is empty.
stall_countdown(m) ==
    IF m.tos = None /\ m.sub = None /\ is_empty(m.queue) THEN 0 ELSE m.el

\* The source part that leaves the source online once it has asked for a proof.
source_part_stays_online(m, out) ==
    IF ~m.s_online
    THEN [m |-> m, panic |-> FALSE]
    ELSE LET m1 == [m EXCEPT !.queue = out.queue]
         IN  IF IsSome(out.result)
             THEN [m |-> [m1 EXCEPT !.s_proof = out.result], panic |-> FALSE]
             ELSE IF m.s_req
             THEN IF IsSome(m.ss)
                  THEN [m |-> [m1 EXCEPT !.s_online = FALSE,
                                         !.s_nonces =
                                   Some([at_block |-> Unwrap(m.ss).best_self,
                                         prev_latest_nonce |->
                                             best_at_source(m1.queue, m1.tn)])],
                        panic |-> FALSE]
                  ELSE [m |-> m1, panic |-> TRUE]
             ELSE [m |-> m1, panic |-> FALSE]

\* "if source_client_is_online { .. }": the source part of the loop body. `out`
\* is what select_nonces_to_deliver(&race_state, &mut strategy) gives in `m`.
source_part(m, out) ==
    IF ~m.s_online
    THEN [m |-> m, panic |-> FALSE]
    ELSE LET m1 == [m EXCEPT !.s_online = FALSE, !.queue = out.queue]
         IN  IF IsSome(out.result)
             THEN [m |-> [m1 EXCEPT !.s_proof = out.result], panic |-> FALSE]
             ELSE IF m.s_req
             THEN IF IsSome(m.ss)
                  THEN [m |-> [m1 EXCEPT !.s_nonces =
                                   Some([at_block |-> Unwrap(m.ss).best_self,
                                         prev_latest_nonce |->
                                             best_at_source(m1.queue, m1.tn)])],
                        panic |-> FALSE]
                  ELSE [m |-> m1, panic |-> TRUE]
             ELSE [m |-> [m1 EXCEPT !.s_online = TRUE], panic |-> FALSE]

\* The target part that marks the target busy once it has submitted a proof.
target_part_busy_after_submit(m) ==
    IF ~m.t_online
    THEN [m |-> m, panic |-> FALSE]
    ELSE LET m1 == [m EXCEPT !.t_online = FALSE,
                             !.t_submit = IF IsSome(m.tos) THEN m.tos ELSE m.t_submit]
         IN  IF m.t_req
             THEN IF IsSome(m.ts)
                  THEN [m |-> [m1 EXCEPT !.t_nonces =
                                   Some([at_block |-> Unwrap(m.ts).best_self])],
                        panic |-> FALSE]
                  ELSE [m |-> m1, panic |-> TRUE]
             ELSE [m |-> [m1 EXCEPT !.t_online = ~IsSome(m.tos)], panic |-> FALSE]

\* "if target_client_is_online { .. }": the target part of the loop body.
target_part(m) ==
    IF ~m.t_online
    THEN [m |-> m, panic |-> FALSE]
    ELSE LET m1 == [m EXCEPT !.t_online = FALSE,
                             !.t_submit = IF IsSome(m.tos) THEN m.tos ELSE m.t_submit]
         IN  IF m.t_req
             THEN IF IsSome(m.ts)
                  THEN [m |-> [m1 EXCEPT !.t_nonces =
                                   Some([at_block |-> Unwrap(m.ts).best_self])],
                        panic |-> FALSE]
                  ELSE [m |-> m1, panic |-> TRUE]
             ELSE [m |-> [m1 EXCEPT !.t_online = TRUE], panic |-> FALSE]

\* The loop body behind the select!: the stall check, then the source part,
\* then the target part. `m` is the state the arm left, `dt` the time the
\* select! has waited. (Each intermediate state is bound by a quantifier over
\* a singleton, so that it is computed once.)
Finish(m, ev, dt) ==
    \E m0 \in { m } :
    \E el \in { Min(m0.el + dt, StallTimeout + 1) } :
        IF el > StallTimeout
        THEN Return("BothFailed", ev)
        ELSE \E m1 \in { [m0 EXCEPT !.el = stall_countdown([m0 EXCEPT !.el = el])] } :
             \E out \in { loop_select_nonces_to_deliver(m1) } :
             \E s \in { source_part(m1, out) } :
                 IF s.panic
                 THEN Return("panic", ev)
                 ELSE \E t \in { target_part(s.m) } :
                          IF t.panic
                          THEN Return("panic", ev)
                          ELSE Store(t.m, "running", ev)

\* How long a select! may wait, in ticks.
Waits == 0..(StallTimeout + 1)
\* No time passes.
NoWait == { 0 }

\* The arm of race_source_updated that raises source_nonces_required and does
\* not store the state.
race_source_updated_arm_not_stored(st, dt) ==
    IF source_state # Some(st)
    THEN Finish([Cur EXCEPT !.s_req = TRUE], NoEvent, dt)
    ELSE Finish(Cur, NoEvent, dt)

\* source_state = race_source_updated.next(), with Some(st)
race_source_updated_arm(st, dt) ==
    IF source_state # Some(st)
    THEN Finish([Cur EXCEPT !.s_req = TRUE, !.ss = Some(st)], NoEvent, dt)
    ELSE Finish(Cur, NoEvent, dt)

\* target_state = race_target_updated.next(), with Some(st)
race_target_updated_arm(st, dt) ==
    IF target_state # Some(st)
    THEN Finish([Cur EXCEPT !.t_req = TRUE, !.ts = Some(st)], NoEvent, dt)
    ELSE Finish(Cur, NoEvent, dt)

\* The end of an arm of a request: the client's new status, or the return of
\* run() with the arm's FailedClient. `event` keeps the arm of a request that
\* ended with an error.
RequestDone(m, arm, outcome, dt) ==
    \E ev \in { IF outcome = "ok" THEN NoEvent ELSE [arm |-> arm, outcome |-> outcome] } :
        IF process_future_result(outcome).fails
        THEN Return(failed_client(arm), ev)
        ELSE Finish(m, ev, dt)

\* nonces = source_nonces, with the answer (at_block, new_nonces): the client
\* echoes the block of the request.
source_nonces_arm(outcome, new_nonces, dt) ==
    \E r \in { process_future_result(outcome) } :
    \E m0 \in { [Cur EXCEPT !.s_req = FALSE, !.s_nonces = None,
                            !.s_online = r.online,
                            !.s_sleep = IF r.sleeps THEN TRUE ELSE @] } :
        IF outcome = "ok"
        THEN RequestDone(
                 [m0 EXCEPT !.queue = source_nonces_updated(
                                Cur.queue, Cur.tn,
                                Unwrap(source_nonces).at_block, new_nonces)],
                 "source_nonces", outcome, dt)
        ELSE RequestDone(m0, "source_nonces", outcome, dt)

\* nonces = target_nonces, with the answer latest_nonce
target_nonces_arm(outcome, latest_nonce, dt) ==
    \E r \in { process_future_result(outcome) } :
    \E m0 \in { [Cur EXCEPT !.t_req = FALSE, !.t_nonces = None,
                            !.t_online = r.online,
                            !.t_sleep = IF r.sleeps THEN TRUE ELSE @] } :
        IF outcome = "ok"
        THEN \E out \in { target_nonces_updated(Cur.queue, Cur.tn, Cur.tos,
                                                 Cur.sub, latest_nonce) } :
                 RequestDone(
                     [m0 EXCEPT !.queue = out.queue,
                                !.tn = out.target_nonce,
                                !.tos = out.nonces_to_submit,
                                !.sub = out.nonces_submitted],
                     "target_nonces", outcome, dt)
        ELSE RequestDone(m0, "target_nonces", outcome, dt)

\* proof = source_generate_proof: the client answers with the block and the
\* range of the request.
source_generate_proof_arm(outcome, dt) ==
    \E r \in { process_future_result(outcome) } :
    \E m0 \in { [Cur EXCEPT !.s_proof = None,
                            !.s_online = r.online,
                            !.s_sleep = IF r.sleeps THEN TRUE ELSE @] } :
        IF outcome = "ok"
        THEN RequestDone([m0 EXCEPT !.tos = source_generate_proof],
                         "source_generate_proof", outcome, dt)
        ELSE RequestDone(m0, "source_generate_proof", outcome, dt)

\* proof_submit_result = target_submit_proof: the client answers with the range
\* of the request.
target_submit_proof_arm(outcome, dt) ==
    \E r \in { process_future_result(outcome) } :
    \E m0 \in { [Cur EXCEPT !.t_submit = None,
                            !.t_online = r.online,
                            !.t_sleep = IF r.sleeps THEN TRUE ELSE @] } :
    \E nonces_range \in { RangeOf(Unwrap(target_submit_proof)) } :
        IF outcome = "ok"
        THEN RequestDone([m0 EXCEPT !.tos = None, !.sub = Some(nonces_range)],
                         "target_submit_proof", outcome, dt)
        ELSE RequestDone(m0, "target_submit_proof", outcome, dt)

-----------------------------------------------------------------------------
(* LoopSpec: run() with clients that answer anything *)

SourceStateUpdated(W) ==
    /\ exit = "running"
    /\ race_source_updated = "open"
    /\ \E dt \in W, st \in SourceClientStates : race_source_updated_arm(st, dt)
    /\ UNCHANGED << recorded, reported >>

\* race_source_updated.next() is None: the feed has ended.
SourceStateEnded(W) ==
    /\ exit = "running"
    /\ race_source_updated = "open"
    /\ \E dt \in W : Finish([Cur EXCEPT !.src_feed = "terminated"], NoEvent, dt)
    /\ UNCHANGED << recorded, reported >>

TargetStateUpdated(W) ==
    /\ exit = "running"
    /\ race_target_updated = "open"
    /\ \E dt \in W, st \in TargetClientStates : race_target_updated_arm(st, dt)
    /\ UNCHANGED << recorded, reported >>

\* race_target_updated.next() is None: the feed has ended.
TargetStateEnded(W) ==
    /\ exit = "running"
    /\ race_target_updated = "open"
    /\ \E dt \in W : Finish([Cur EXCEPT !.tgt_feed = "terminated"], NoEvent, dt)
    /\ UNCHANGED << recorded, reported >>

SourceNoncesDone(W) ==
    /\ exit = "running"
    /\ IsSome(source_nonces)
    /\ \E dt \in W :
          \/ \E new_nonces \in LoopRanges : source_nonces_arm("ok", new_nonces, dt)
          \/ \E outcome \in Outcomes \ { "ok" } :
                source_nonces_arm(outcome, Range(1, 1), dt)
    /\ UNCHANGED << recorded, reported >>

TargetNoncesDone(W) ==
    /\ exit = "running"
    /\ IsSome(target_nonces)
    /\ \E dt \in W :
          \/ \E latest_nonce \in LoopNonces : target_nonces_arm("ok", latest_nonce, dt)
          \/ \E outcome \in Outcomes \ { "ok" } : target_nonces_arm(outcome, 0, dt)
    /\ UNCHANGED << recorded, reported >>

ProofGenerated(W) ==
    /\ exit = "running"
    /\ IsSome(source_generate_proof)
    /\ \E dt \in W, outcome \in Outcomes : source_generate_proof_arm(outcome, dt)
    /\ UNCHANGED << recorded, reported >>

\* `recorded` follows the ranges the arm puts in nonces_submitted.
ProofSubmitted(W) ==
    /\ exit = "running"
    /\ IsSome(target_submit_proof)
    /\ \E dt \in W, outcome \in Outcomes :
          /\ target_submit_proof_arm(outcome, dt)
          /\ recorded' = IF outcome = "ok"
                         THEN LastTwo(Append(recorded,
                                             RangeOf(Unwrap(target_submit_proof))))
                         ELSE recorded
    /\ UNCHANGED reported

\* The select! has no future left to poll: every request future is terminated
\* and both feeds have ended. Without a `complete` arm the macro panics.
SelectOnTerminated ==
    /\ exit = "running"
    /\ race_source_updated = "terminated"
    /\ race_target_updated = "terminated"
    /\ source_nonces = None /\ source_generate_proof = None
    /\ target_nonces = None /\ target_submit_proof = None
    /\ Return("panic", NoEvent)
    /\ UNCHANGED << recorded, reported >>

LoopNext ==
    \/ SourceStateUpdated(NoWait)
    \/ TargetStateUpdated(NoWait)
    \/ SourceNoncesDone(NoWait)
    \/ TargetNoncesDone(NoWait)
    \/ ProofGenerated(NoWait)
    \/ ProofSubmitted(NoWait)

\* LoopSpec: run() with feeds that do not end and with no time passing (the
\* stall timeout never fires). An ended feed and a wait change no variable
\* that the arms of the requests read.
LoopSpec == Init /\ [][LoopNext]_vars

-----------------------------------------------------------------------------
(* RunSpec: run() with time and with feeds that may end *)

RunMaxNonce == 1
RunNonces == 0..RunMaxNonce
RunRanges == { r \in LoopRanges : r.end <= RunMaxNonce }

\* The arm of source_nonces, with answers up to RunMaxNonce.
RunSourceNoncesDone(W) ==
    /\ exit = "running"
    /\ IsSome(source_nonces)
    /\ \E dt \in W :
          \/ \E new_nonces \in RunRanges : source_nonces_arm("ok", new_nonces, dt)
          \/ \E outcome \in Outcomes \ { "ok" } :
                source_nonces_arm(outcome, Range(1, 1), dt)
    /\ UNCHANGED << recorded, reported >>

\* The arm of target_nonces, with answers up to RunMaxNonce.
RunTargetNoncesDone(W) ==
    /\ exit = "running"
    /\ IsSome(target_nonces)
    /\ \E dt \in W :
          \/ \E latest_nonce \in RunNonces : target_nonces_arm("ok", latest_nonce, dt)
          \/ \E outcome \in Outcomes \ { "ok" } : target_nonces_arm(outcome, 0, dt)
    /\ UNCHANGED << recorded, reported >>

\* The arm of target_submit_proof.
RunProofSubmitted(W) ==
    /\ exit = "running"
    /\ IsSome(target_submit_proof)
    /\ \E dt \in W, outcome \in Outcomes : target_submit_proof_arm(outcome, dt)
    /\ UNCHANGED << recorded, reported >>

RunNext ==
    \/ SourceStateUpdated(Waits)
    \/ SourceStateEnded(Waits)
    \/ TargetStateUpdated(Waits)
    \/ TargetStateEnded(Waits)
    \/ RunSourceNoncesDone(Waits)
    \/ RunTargetNoncesDone(Waits)
    \/ ProofGenerated(Waits)
    \/ RunProofSubmitted(Waits)
    \/ SelectOnTerminated

\* RunSpec: every arm of the select!, after any wait, with feeds that may end.
RunSpec == Init /\ [][RunNext]_vars

\* RetrySpec: run() with feeds that do not end and no time passing, where
\* every feed keeps yielding and every request is answered in the end.
RetryNext ==
    \/ SourceStateUpdated(NoWait)
    \/ TargetStateUpdated(NoWait)
    \/ RunSourceNoncesDone(NoWait)
    \/ RunTargetNoncesDone(NoWait)
    \/ ProofGenerated(NoWait)
    \/ RunProofSubmitted(NoWait)

RetryFairness ==
    /\ WF_vars(SourceStateUpdated(NoWait))
    /\ WF_vars(TargetStateUpdated(NoWait))
    /\ WF_vars(RunSourceNoncesDone(NoWait))
    /\ WF_vars(RunTargetNoncesDone(NoWait))
    /\ WF_vars(ProofGenerated(NoWait))
    /\ WF_vars(RunProofSubmitted(NoWait))

RetrySpec == Init /\ [][RetryNext]_vars /\ RetryFairness

-----------------------------------------------------------------------------
(* LiveSpec: run() with clients that do not fail and chains that advance *)

\* Largest nonce the source generates in LiveSpec.
LiveMaxNonce == 2

\* The number of a snapshot's header, -1 before the first snapshot.
BestSelf(state) == IF IsSome(state) THEN Unwrap(state).best_self ELSE -1
BestPeer(state) == IF IsSome(state) THEN Unwrap(state).best_peer ELSE -1

\* The snapshots of the source feed: its best header does not go back; its
\* view of the target chain keeps changing (two values stand for a growing
\* header number).
LiveSourceStates ==
    { [best_self |-> h, best_peer |-> b] : h \in Headers, b \in 0..1 }
\* The snapshots of the target feed: the source header it knows does not go
\* back; its own best header keeps changing.
LiveTargetStates ==
    { [best_self |-> b, best_peer |-> h] : h \in Headers, b \in 0..1 }

LiveSourceStateUpdated ==
    /\ exit = "running"
    /\ \E st \in LiveSourceStates :
          /\ st.best_self >= BestSelf(source_state)
          /\ race_source_updated_arm(st, 0)
    /\ UNCHANGED << recorded, reported >>

LiveTargetStateUpdated ==
    /\ exit = "running"
    /\ \E st \in LiveTargetStates :
          /\ st.best_peer >= BestPeer(target_state)
          /\ race_target_updated_arm(st, 0)
    /\ UNCHANGED << recorded, reported >>

\* The source answers with "all nonces generated after prev_latest_nonce": the
\* range from prev_latest_nonce + 1 to its latest nonce, which does not go back.
LiveSourceNoncesDone ==
    /\ exit = "running"
    /\ IsSome(source_nonces)
    /\ \E latest \in reported..LiveMaxNonce :
          /\ source_nonces_arm(
                 "ok", Range(Unwrap(source_nonces).prev_latest_nonce + 1, latest), 0)
          /\ reported' = latest
    /\ UNCHANGED recorded

\* The target answers with a latest_nonce of the set `answers`.
LiveTargetNoncesAnswer(answers) ==
    /\ exit = "running"
    /\ IsSome(target_nonces)
    /\ \E latest_nonce \in answers : target_nonces_arm("ok", latest_nonce, 0)
    /\ UNCHANGED << recorded, reported >>

LiveTargetNoncesDone == LiveTargetNoncesAnswer(0..LiveMaxNonce)

LiveProofGenerated ==
    /\ exit = "running"
    /\ IsSome(source_generate_proof)
    /\ source_generate_proof_arm("ok", 0)
    /\ UNCHANGED << recorded, reported >>

LiveProofSubmitted ==
    /\ exit = "running"
    /\ IsSome(target_submit_proof)
    /\ target_submit_proof_arm("ok", 0)
    /\ UNCHANGED << recorded, reported >>

LiveNext ==
    \/ LiveSourceStateUpdated
    \/ LiveTargetStateUpdated
    \/ LiveSourceNoncesDone
    \/ LiveTargetNoncesDone
    \/ LiveProofGenerated
    \/ LiveProofSubmitted

\* Both feeds keep delivering changing snapshots.
SourceStateChanges == LiveSourceStateUpdated /\ source_state' # source_state
TargetStateChanges == LiveTargetStateUpdated /\ target_state' # target_state
\* The target learns of later source headers.
TargetBestPeerAdvances ==
    LiveTargetStateUpdated /\ BestPeer(target_state') > BestPeer(target_state)
\* The target reports the end of the submitted range.
TargetReportsSubmitted ==
    /\ IsSome(nonces_submitted)
    /\ LiveTargetNoncesAnswer(Unwrap(nonces_submitted).end..LiveMaxNonce)

\* Every request is answered; the feeds keep changing; the target's best_peer
\* reaches the last header; the target comes to report what was submitted.
LiveFairness ==
    /\ WF_vars(LiveSourceNoncesDone)
    /\ WF_vars(LiveTargetNoncesDone)
    /\ WF_vars(LiveProofGenerated)
    /\ WF_vars(LiveProofSubmitted)
    /\ WF_vars(SourceStateChanges)
    /\ WF_vars(TargetStateChanges)
    /\ WF_vars(TargetBestPeerAdvances)
    /\ SF_vars(TargetReportsSubmitted)

LiveSpec == Init /\ [][LiveNext]_vars /\ LiveFairness

-----------------------------------------------------------------------------
(* The strategy's contract, checked under Spec (C1 under RaceSpec) *)

SelectOps == { "select_nonces_to_deliver", "select_nonces_to_deliver_with_selector" }

\* The position of the first queued entry whose header is above best_peer,
\* Len(queue) + 1 if there is none.
FirstUnfinalized(queue, best_peer) ==
    LET above == { i \in 1..Len(queue) : queue[i].at > best_peer }
    IN  IF above = {} THEN Len(queue) + 1
        ELSE CHOOSE i \in above : \A j \in above : i <= j

\* The queue without the nonces <= n: entries that end at n or below are gone,
\* the others begin above n and keep their header.
TrimSpec(queue, n) ==
    LET kept == SelectSeq(queue, LAMBDA e : e.end > n)
    IN  [i \in 1..Len(kept) |-> [kept[i] EXCEPT !.begin = Max(@, n + 1)]]

\* The queued ranges are non-empty, in nonce order and do not overlap.
QueueShape(queue) ==
    /\ \A i \in 1..Len(queue) : queue[i].begin <= queue[i].end
    /\ \A i \in 1..(Len(queue) - 1) : queue[i + 1].begin > queue[i].end

MayCallSelect ==
    /\ nonces_to_submit = None
    /\ nonces_submitted = None
    /\ IsSome(target_state)

\* C1 (single in-flight): a selection made while nonces_to_submit is set, or
\* nonces_submitted is set, or target_state is unknown, returns nothing,
\* whatever is queued and whatever the selector.
C1_SingleInFlight ==
    (last.op \in SelectOps /\ ~MayCallSelect) => last.result = None

\* A selection returned nothing with nonces_to_submit set, although the front
\* of the queue was observed at a header the target knows.
C1_Witness ==
    /\ last.op \in SelectOps
    /\ IsSome(nonces_to_submit)
    /\ IsSome(target_state)
    /\ source_queue # << >>
    /\ Head(source_queue).at <= Unwrap(target_state).best_peer
    /\ last.result = None

\* C2 (finality gating): select_nonces_to_deliver consumes exactly the entries
\* in front of the first entry observed at a header above best_peer; that entry
\* and every entry behind it stay queued unchanged, and the returned range ends
\* where the last consumed entry ends, an entry observed at a header <= best_peer.
C2_FinalityGating ==
    [][ last'.op = "select_nonces_to_deliver" =>
          IF MayCallSelect
          THEN LET bp == Unwrap(target_state).best_peer
                   i == FirstUnfinalized(source_queue, bp)
               IN  /\ source_queue' = SubSeq(source_queue, i, Len(source_queue))
                   /\ IF i = 1
                      THEN last'.result = None
                      ELSE /\ IsSome(last'.result)
                           /\ Unwrap(last'.result).end = source_queue[i - 1].end
                           /\ source_queue[i - 1].at <= bp
          ELSE source_queue' = source_queue ]_vars

\* A selection returned a range and left in the queue an entry observed above
\* best_peer, with an entry observed at a header <= best_peer behind it.
C2_Witness ==
    /\ last.op = "select_nonces_to_deliver"
    /\ IsSome(last.result)
    /\ Len(source_queue) >= 2
    /\ source_queue[1].at > Unwrap(target_state).best_peer
    /\ source_queue[2].at <= Unwrap(target_state).best_peer

\* C3 (contiguity): a range returned by a selection begins at best_at_target() + 1.
C3_Contiguity ==
    (last.op \in SelectOps /\ IsSome(last.result)) =>
        Unwrap(last.result).begin = best_at_target(target_nonce) + 1

\* A selection returned a range while the target nonce was above zero and below
\* the first queued nonce minus one (the range begins in a gap of the queue).
C3_Witness ==
    /\ last.op \in SelectOps
    /\ IsSome(last.result)
    /\ target_nonce > 0
    /\ IsSome(last.pre_front)
    /\ Unwrap(last.pre_front).begin > target_nonce + 1

\* C4 (monotonicity): best_at_target() never decreases, whatever is called.
C4_TargetMonotone ==
    [][ best_at_target(target_nonce') >= best_at_target(target_nonce) ]_vars

\* target_nonces_updated was called with a nonce below the target nonce.
C4_Witness ==
    /\ last.op = "target_nonces_updated"
    /\ last.nonce < target_nonce

\* C5 (no regression): best_at_source() does not decrease in a call of
\* source_nonces_updated, and is never below best_at_target().
C5_SourceNoRegression ==
    /\ [](best_at_source(source_queue, target_nonce) >= best_at_target(target_nonce))
    /\ [][ last'.op = "source_nonces_updated" =>
             best_at_source(source_queue', target_nonce')
                 >= best_at_source(source_queue, target_nonce) ]_vars

\* source_nonces_updated was called with a range of nonces that are all queued
\* already, on a strategy that has a target nonce and queued nonces.
C5_Witness ==
    /\ last.op = "source_nonces_updated"
    /\ last.covered
    /\ target_nonce > 0
    /\ source_queue # << >>

\* C6 (queue shape): the queued ranges never overlap and are in nonce order,
\* and a report whose nonces are all queued already adds no entry.
C6_QueueShape ==
    /\ [] QueueShape(source_queue)
    /\ [][ (last'.op = "source_nonces_updated" /\ last'.covered) =>
             source_queue' = source_queue ]_vars

\* A covered report was made to a strategy that holds two entries or more.
C6_Witness ==
    /\ last.op = "source_nonces_updated"
    /\ last.covered
    /\ Len(source_queue) >= 2

\* C7 (queue trimming): target_nonces_updated with a nonce n >= target nonce
\* leaves the queue without the nonces <= n (entries ending at n or below
\* removed, the entry around n cut to its nonces above n under its header, the
\* others untouched); and in every state every queued entry begins above the
\* target nonce.
C7_QueueTrimming ==
    /\ [](\A i \in 1..Len(source_queue) : source_queue[i].begin > target_nonce)
    /\ [][ (last'.op = "target_nonces_updated" /\ last'.nonce >= target_nonce) =>
             /\ source_queue' = TrimSpec(source_queue, last'.nonce)
             /\ \A i \in 1..Len(source_queue') :
                   source_queue'[i].begin > last'.nonce ]_vars

\* target_nonces_updated cut the front entry, which began at or below the nonce
\* and ended above it, and left the entry behind it alone.
C7_Witness ==
    /\ last.op = "target_nonces_updated"
    /\ IsSome(last.pre_front)
    /\ Unwrap(last.pre_front).begin <= last.nonce
    /\ Unwrap(last.pre_front).end > last.nonce
    /\ Len(source_queue) >= 2
    /\ source_queue[1] = [Unwrap(last.pre_front) EXCEPT !.begin = last.nonce + 1]

-----------------------------------------------------------------------------
(* The loop's contract, checked under LoopSpec *)

Disjoint(r1, r2) == r1.end < r2.begin \/ r2.end < r1.begin

\* The ranges the race still carries: the range held in nonces_to_submit, the
\* range of nonces_submitted and the range of the outstanding submit_proof.
HeldRanges(to_submit, submitted, submit_proof) ==
    { RangeOf(Unwrap(x)) : x \in { y \in { to_submit, submit_proof } : IsSome(y) } }
        \cup { Unwrap(x) : x \in { y \in { submitted } : IsSome(y) } }

\* The iteration has asked the source to prove a range: the strategy has
\* returned it.
RangeReturned ==
    /\ source_generate_proof' # source_generate_proof
    /\ IsSome(source_generate_proof')

\* C8 (first half): of two ranges recorded in nonces_submitted one after the
\* other, the later begins strictly after the earlier ends.
RecordedInOrder ==
    Len(recorded) = 2 => recorded[2].begin > recorded[1].end

\* C8 (second half): the range the strategy returns overlaps no range that is
\* held in nonces_to_submit or nonces_submitted or that is being submitted.
ReturnedRangeIsNew ==
    RangeReturned =>
        \A r \in HeldRanges(nonces_to_submit', nonces_submitted', target_submit_proof') :
            Disjoint(RangeOf(Unwrap(source_generate_proof')), r)

\* C8: in-order, non-overlapping delivery in the race loop: successive ranges
\* recorded in nonces_submitted are increasing, and a range returned by the
\* strategy overlaps no range still held or being submitted.
C8_InOrderDelivery == []RecordedInOrder /\ [][ReturnedRangeIsNew]_vars

\* Two ranges have been recorded one after the other; the second is still in
\* nonces_submitted, and the source has been asked to prove a range that the
\* strategy returned while the second was being submitted.
C8_Witness ==
    /\ Len(recorded) = 2
    /\ nonces_submitted = Some(recorded[2])
    /\ IsSome(source_generate_proof)

SourceArms == { "source_nonces", "source_generate_proof" }
TargetArms == { "target_nonces", "target_submit_proof" }

-----------------------------------------------------------------------------
(* Delivery, checked under LiveSpec *)

\* C10: when no request fails, the feeds keep changing, the target's best_peer
\* reaches every header, the target comes to report the end of each submitted
\* range and the stall timeout does not fire, every nonce the source has
\* reported is eventually covered by best_at_target(). (`reported` does not go
\* back, so a nonce k that is reported stays below every later `reported`:
\* best_at_target() reaching `reported` again and again covers each k.)
C10_EventualDelivery == []<>(best_at_target(target_nonce) >= reported)

\* Every nonce of the source has been reported and best_at_target() covers
\* them all: nothing is queued, held or submitted.
C10_Witness ==
    /\ reported = LiveMaxNonce
    /\ best_at_target(target_nonce) = LiveMaxNonce
    /\ nonces_submitted = None /\ nonces_to_submit = None
    /\ is_empty(source_queue)

-----------------------------------------------------------------------------
(* The loop's contract, continued (LoopSpec) *)

\* C11: the header of a generate_proof request is the best_peer of the
\* target_state the selection was made with (the state the iteration ends
\* with), and nothing is selected while target_state is unknown.
C11_ProofHeader ==
    [][ RangeReturned =>
          /\ IsSome(target_state')
          /\ Unwrap(source_generate_proof').at = Unwrap(target_state').best_peer ]_vars

\* A proof has been asked at header 1, the best_peer of the target, while the
\* best header of the source is 0: the nonces were observed at header 0.
C11_Witness ==
    /\ IsSome(source_generate_proof)
    /\ IsSome(source_state) /\ Unwrap(source_state).best_self = 0
    /\ IsSome(target_state) /\ Unwrap(target_state).best_peer = 1
    /\ Unwrap(source_generate_proof).at = 1

-----------------------------------------------------------------------------
(* target_nonces_updated and the work in flight (RaceSpec) *)

TargetNoncesUpdatedCalled == last'.op = "target_nonces_updated"

\* C12: target_nonces_updated with latest_nonce = n >= target_nonce clears
\* nonces_to_submit iff it is set and its range ends at or below n, clears
\* nonces_submitted iff it is set and its range ends at or below n, and leaves
\* a field whose range ends above n exactly as it was.
C12_ClearsWhenSuperseded ==
    [][ TargetNoncesUpdatedCalled /\ last'.nonce >= target_nonce =>
          /\ nonces_to_submit' =
                 IF IsSome(nonces_to_submit) /\ Unwrap(nonces_to_submit).end <= last'.nonce
                 THEN None ELSE nonces_to_submit
          /\ nonces_submitted' =
                 IF IsSome(nonces_submitted) /\ Unwrap(nonces_submitted).end <= last'.nonce
                 THEN None ELSE nonces_submitted ]_vars

\* The target reported 2: the submitted range 1..=2 was cleared and the proof
\* held for 1..=3 was kept.
C12_Witness ==
    /\ last.op = "target_nonces_updated" /\ last.nonce = 2 /\ target_nonce = 2
    /\ last.pre_submitted = Some(Range(1, 2)) /\ nonces_submitted = None
    /\ last.pre_to_submit = Some(Entry(0, Range(1, 3)))
    /\ nonces_to_submit = last.pre_to_submit

\* C15: a second target_nonces_updated with the same latest_nonce leaves the
\* queue, target_nonce, nonces_to_submit and nonces_submitted as the first
\* call left them.
C15_IdempotentConfirmation ==
    [][ TargetNoncesUpdatedCalled /\ last'.again =>
          UNCHANGED << source_queue, target_nonce, nonces_to_submit, nonces_submitted >>
      ]_vars

\* The target reported 2 twice in a row, with nonces above 2 still queued.
C15_Witness ==
    /\ last.op = "target_nonces_updated" /\ last.again /\ last.nonce = 2
    /\ target_nonce = 2
    /\ source_queue # << >> /\ Head(source_queue).begin = 3

-----------------------------------------------------------------------------
(* The contract of the selector (SelectorSpec) *)

\* A selector that answers the fixed range Some(r) is given the first queued
\* range, provided the call gets to the queue and the header of that range is
\* finalized at the target.
SelectorGivenFront ==
    /\ last'.op = "select_nonces_to_deliver_with_selector"
    /\ last'.sel.kind = "fixed"
    /\ MayCallSelect
    /\ source_queue # << >>
    /\ Head(source_queue).at <= Unwrap(target_state).best_peer

\* C13: when the selector returns, for a finalized queued range, Some(r) with
\* r.begin > r.end, or r.begin below the begin of the queued range, or r.end
\* other than the end of the queued range, the call panics: it returns no
\* range and requeues nothing.
C13_SelectorContractEnforced ==
    [][ /\ SelectorGivenFront
        /\ LET r == last'.sel.r
               queued == Head(source_queue)
           IN  \/ r.begin > r.end
               \/ r.begin < queued.begin
               \/ r.end # queued.end
        => /\ exit' = "panic"
           /\ last'.result = None
           /\ source_queue' = Tail(source_queue) ]_vars

\* The call panicked on a well-formed range that begins inside the queued
\* range and ends below its end.
C13_Witness ==
    /\ exit = "panic"
    /\ last.sel.kind = "fixed"
    /\ IsSome(last.pre_front)
    /\ last.sel.r.begin <= last.sel.r.end
    /\ last.sel.r.begin >= Unwrap(last.pre_front).begin
    /\ last.sel.r.end < Unwrap(last.pre_front).end

-----------------------------------------------------------------------------
(* The selector splits a range (Spec) *)

\* The position of the first queued entry the selector HoldFrom(k) holds
\* something of or whose header is above best_peer, Len(queue) + 1 if none.
FirstHeld(queue, best_peer, k) ==
    LET held == { i \in 1..Len(queue) : queue[i].at > best_peer \/ k <= queue[i].end }
    IN  IF held = {} THEN Len(queue) + 1
        ELSE CHOOSE i \in held : \A j \in held : i <= j

\* C14: when the selector holds back a proper suffix r of a finalized queued
\* range, the call returns target_nonce + 1 ..= r.begin - 1, puts r back at
\* the front of the queue under the header of that range and leaves the
\* entries behind it as they are; when r is the whole range the entry stays
\* as it is and nothing of it is selected.
C14_SelectorSplit ==
    [][ /\ last'.op = "select_nonces_to_deliver_with_selector"
        /\ last'.sel.kind = "hold_from"
        /\ MayCallSelect
        => LET bp == Unwrap(target_state).best_peer
               k == last'.sel.k
               i == FirstHeld(source_queue, bp, k)
               rest == SubSeq(source_queue, i + 1, Len(source_queue))
           IN  i <= Len(source_queue) /\ source_queue[i].at <= bp =>
                 IF k > source_queue[i].begin
                 THEN /\ last'.result = Some(Range(target_nonce + 1, k - 1))
                      /\ source_queue' =
                            << Entry(source_queue[i].at, Range(k, source_queue[i].end)) >>
                            \o rest
                 ELSE /\ source_queue' = << source_queue[i] >> \o rest
                      /\ last'.result =
                            IF i = 1 THEN None
                            ELSE Some(Range(target_nonce + 1, source_queue[i - 1].end))
      ]_vars

\* The selector held back the nonces from 3 of a range that began at 1: 1..=2
\* was returned and 3..=3 is queued under the same header.
C14_Witness ==
    /\ last.op = "select_nonces_to_deliver_with_selector"
    /\ last.sel.kind = "hold_from" /\ last.sel.k = 3
    /\ last.pre_front = Some(Entry(0, Range(1, 3)))
    /\ last.result = Some(Range(1, 2))
    /\ source_queue = << Entry(0, Range(3, 3)) >>

\* The selector held back the whole of the second queued range: the first
\* was returned and the second is queued as it was.
C14_WitnessWhole ==
    /\ last.op = "select_nonces_to_deliver_with_selector"
    /\ last.sel.kind = "hold_from" /\ last.sel.k = 2
    /\ last.pre_front = Some(Entry(0, Range(1, 1)))
    /\ last.result = Some(Range(1, 1))
    /\ Len(source_queue) >= 1 /\ Head(source_queue).begin = 2

-----------------------------------------------------------------------------
(* The work in flight of the loop (LoopSpec) *)

\* C18: nonces_to_submit and nonces_submitted are never both set.
C18_OneOutstandingDelivery ==
    ~(IsSome(nonces_to_submit) /\ IsSome(nonces_submitted))

\* A source nonces request is issued in the step.
NoncesAsked == source_nonces' # source_nonces /\ IsSome(source_nonces')

\* C20: a source nonces request and a proof request are never outstanding
\* together, the source is online only when neither is outstanding, and a
\* nonces request is issued only when the selection of nonces to prove, made
\* on the state the iteration ends with, returns nothing.
C20_SourceSerialized ==
    /\ [](/\ ~(IsSome(source_nonces) /\ IsSome(source_generate_proof))
          /\ source_client_is_online =>
                 source_nonces = None /\ source_generate_proof = None)
    /\ [][ /\ NoncesAsked => loop_select_nonces_to_deliver(Cur)'.result = None
           /\ NoncesAsked \/ RangeReturned =>
                 \/ source_nonces = None /\ source_generate_proof = None
                 \/ source_nonces' = None \/ source_generate_proof' = None ]_vars

\* A proof was asked while source nonces were required as well: the nonces
\* request waits for the proof.
C20_Witness ==
    /\ IsSome(source_generate_proof)
    /\ source_nonces = None
    /\ source_nonces_required
    /\ ~source_client_is_online
    /\ exit = "running"

-----------------------------------------------------------------------------
(* The exits of run() (RunSpec) *)

\* C16: run() ends only with SourceFailed, TargetFailed or BothFailed; the end
\* of one feed or of both never ends or aborts the loop.
C16_LoopExits ==
    exit \in { "running", "SourceFailed", "TargetFailed", "BothFailed" }

\* Nothing is in flight, nothing is queued and no request is outstanding: the
\* next iteration is one of a feed, and at its stall check nonces_to_submit
\* and nonces_submitted are unset and the strategy is empty.
CaughtUp ==
    /\ exit = "running"
    /\ nonces_to_submit = None /\ nonces_submitted = None
    /\ is_empty(source_queue)
    /\ source_nonces = None /\ source_generate_proof = None
    /\ target_nonces = None /\ target_submit_proof = None

\* C19: an iteration at whose stall check nonces_to_submit is unset,
\* nonces_submitted is unset and the strategy is empty resets the stall timer
\* and does not return BothFailed.
C19_StallTimer ==
    [][ CaughtUp => /\ exit' # "BothFailed"
                    /\ exit' = "running" => elapsed' = 0 ]_vars

-----------------------------------------------------------------------------
(* Retries (RetrySpec) *)

\* C17: a side that went offline on a connectivity failure, with its backoff
\* sleep scheduled, is online again later (or run() has returned).
C17_RetryAfterConnectionFailure ==
    /\ (source_go_offline_future /\ ~source_client_is_online)
           ~> (source_client_is_online \/ exit # "running")
    /\ (target_go_offline_future /\ ~target_client_is_online)
           ~> (target_client_is_online \/ exit # "running")

-----------------------------------------------------------------------------
(* The target part of the loop body (LoopSpec) *)

\* An iteration in which no request failed, entered with the target online:
\* the target part of the loop body is run with the target online.
TargetPartRuns ==
    /\ exit = "running" /\ exit' = "running"
    /\ target_client_is_online
    /\ event' = NoEvent

\* C21: when the target is online and nonces_to_submit is set, the loop
\* issues the submission of that proof; the target is marked busy only if a
\* nonces request was issued as well, and stays online otherwise, so that a
\* target that is online while nonces_to_submit is set has a submission
\* outstanding for it, which the next iteration issues again.
C21_TargetReissue ==
    /\ [](exit = "running" /\ target_client_is_online /\ IsSome(nonces_to_submit)
             => target_submit_proof = nonces_to_submit)
    /\ [][ TargetPartRuns =>
             /\ IsSome(nonces_to_submit') => target_submit_proof' = nonces_to_submit'
             /\ target_client_is_online' = ~target_nonces_required'
             /\ ~target_client_is_online' => IsSome(target_nonces') ]_vars

\* The iteration of a failed source nonces request ends with the target
\* online and a submission outstanding for nonces_to_submit: the target was
\* online with that submission outstanding before the iteration, and the
\* iteration issued it again.
C21_Witness ==
    /\ exit = "running"
    /\ event.arm = "source_nonces"
    /\ target_client_is_online
    /\ IsSome(nonces_to_submit)
    /\ target_submit_proof = nonces_to_submit

-----------------------------------------------------------------------------
(* Stale reports of the target (RaceSpec) *)

\* C22: target_nonces_updated with a latest_nonce below target_nonce changes
\* nothing: the queue, target_nonce, nonces_to_submit and nonces_submitted
\* are as before the call.
C22_StaleReportIgnored ==
    [][ TargetNoncesUpdatedCalled /\ last'.nonce < target_nonce =>
          UNCHANGED << source_queue, target_nonce, nonces_to_submit, nonces_submitted >>
      ]_vars

\* The target reported 1 after 2 was known, while a proof for 1..=1 was held
\* and 1..=1 was submitted: both are kept.
C22_Witness ==
    /\ last.op = "target_nonces_updated" /\ last.nonce = 1 /\ target_nonce = 2
    /\ nonces_to_submit = Some(Entry(0, Range(1, 1)))
    /\ nonces_submitted = Some(Range(1, 1))

-----------------------------------------------------------------------------
(* The expect(..) calls of the loop (LoopSpec) *)

\* C23: source_nonces_required is true only if source_state is known and
\* target_nonces_required only if target_state is known, and run() never
\* panics on the expect(..) of a nonces request.
C23_ExpectsHold ==
    /\ source_nonces_required => IsSome(source_state)
    /\ target_nonces_required => IsSome(target_state)
    /\ exit # "panic"

\* Both nonces requests were issued, each at the best block of its state, and
\* both are still required.
C23_Witness ==
    /\ source_nonces_required /\ IsSome(source_nonces)
    /\ Unwrap(source_nonces).at_block = Unwrap(source_state).best_self
    /\ target_nonces_required /\ IsSome(target_nonces)
    /\ Unwrap(target_nonces).at_block = Unwrap(target_state).best_self

-----------------------------------------------------------------------------
(* best_at_source over all the calls (Spec) *)

\* C24: best_at_source() never decreases, whichever of source_nonces_updated,
\* target_nonces_updated and select_nonces_to_deliver is called.
C24_SourceWatermarkMonotone ==
    [][ best_at_source(source_queue', target_nonce')
            >= best_at_source(source_queue, target_nonce) ]_vars

-----------------------------------------------------------------------------
(* Proofs of confirmed nonces (LoopSpec) *)

\* C25: whenever nonces_to_submit is set, its range ends strictly above
\* best_at_target().
C25_NoConfirmedProofHeld ==
    IsSome(nonces_to_submit) =>
        Unwrap(nonces_to_submit).end > best_at_target(target_nonce)

-----------------------------------------------------------------------------
(* Selections that return nothing (Spec) *)

\* C26: a selection that returns None leaves the queue and target_nonce as
\* they were; a selection removes queued entries only when it returns a range.
C26_NoneChangesNothing ==
    [][ last'.op \in SelectOps =>
          /\ last'.result = None => UNCHANGED << source_queue, target_nonce >>
          /\ source_queue' # source_queue => IsSome(last'.result) ]_vars

\* A selection found queued nonces, the first at a header the target knows,
\* and returned None: the selector held back the whole first range.
C26_Witness ==
    /\ last.op = "select_nonces_to_deliver_with_selector"
    /\ last.sel.kind = "hold_from"
    /\ last.result = None
    /\ IsSome(target_state)
    /\ Len(source_queue) >= 2
    /\ Head(source_queue).at <= Unwrap(target_state).best_peer

-----------------------------------------------------------------------------
(* Well-formed selections (Spec) *)

\* C27: a range returned by a selection is not empty (1 <= begin <= end) and
\* ends strictly below the begin of every entry left in the queue.
C27_WellFormedSelection ==
    (last.op \in SelectOps /\ IsSome(last.result)) =>
        /\ 1 <= Unwrap(last.result).begin
        /\ Unwrap(last.result).begin <= Unwrap(last.result).end
        /\ \A i \in 1..Len(source_queue) :
               Unwrap(last.result).end < source_queue[i].begin

\* A selection split the first queued range: it returned the nonces in front
\* of the ones the selector held back, which are left queued with another
\* entry behind them.
C27_Witness ==
    /\ last.op = "select_nonces_to_deliver_with_selector"
    /\ IsSome(last.result)
    /\ Len(source_queue) >= 2
    /\ IsSome(last.pre_front)
    /\ last.sel.kind = "hold_from"
    /\ Unwrap(last.pre_front).begin < last.sel.k
    /\ last.sel.k <= Unwrap(last.pre_front).end
    /\ Head(source_queue).begin = last.sel.k
    /\ Unwrap(last.result).end = last.sel.k - 1

=============================================================================
